---- MODULE Spec2Model ----
(***************************************************************************)
(* A model of the download watcher of src/main.py: the Naming Policy       *)
(* (sanitize_filename), the Stability Resolver                             *)
(* (wait_for_download_complete) and the per-event pipeline                  *)
(* (DownloadHandler.process_event) over a small filesystem.                *)
(*                                                                         *)
(* Python strings are TLA+ strings; the character at position i of s is    *)
(* SubSeq(s, i, i).                                                        *)
(***************************************************************************)
EXTENDS Integers, Sequences, FiniteSets, TLC

\* ------------------------------------------------------------------ bounds
\* Longest prefix and suffix put around the filler of a generated input string.
MaxPre == 1
MaxSuf == 2
\* Generated inputs have fillers of 0..Slack characters and of
\* MAX_NAME_LEN - Slack .. MAX_NAME_LEN + Slack characters.
Slack == 1

\* Events the observer delivers, and filesystem changes the environment makes.
MaxEvents == 2
MaxEnv == 2
MaxClock == 4
MaxHeight == 2
MaxEntries == 2
MaxRequests == 2
MaxSecs == 1

\* --------------------------------------------------------- program constants
\* filename[:200]
MAX_NAME_LEN == 200
\* wait_for_download_complete(path, timeout=60), in seconds
TIMEOUT == 60
\* str(path)[:-9], the length of ".download"
MARKER_LEN == 9

\* The class widened by the "." (every dot of a URL replaced too).
ReservedWithDot == {"<", ">", ":", "\"", "/", "\\", "|", "?", "*", "."}

\* The class with its backslash unescaped, [<>:"/\|?*]: the "\|" is then a
\* "|", and the class holds no backslash.
ReservedNoBackslash == {"<", ">", ":", "\"", "/", "|", "?", "*"}

\* The character class of the regular expression [<>:"/\\|?*]+
Reserved == {"<", ">", ":", "\"", "/", "\\", "|", "?", "*"}

\* ------------------------------------------------------------------ strings
Min(a, b) == IF a < b THEN a ELSE b

CharAt(s, i) == SubSeq(s, i, i)

\* s[:n + 1]
PrefixOneMore(s, n) == SubSeq(s, 1, IF Len(s) < n + 1 THEN Len(s) ELSE n + 1)

\* s[:n] for n >= 0
Prefix(s, n) == SubSeq(s, 1, Min(Len(s), n))

\* c * n, by halving (the evaluation depth stays logarithmic in n)
RECURSIVE Rep(_, _)
Rep(c, n) ==
    IF n = 0 THEN ""
    ELSE LET h == Rep(c, n \div 2)
         IN  IF n % 2 = 0 THEN h \o h ELSE h \o h \o c

\* ------------------------------------------------------- sanitize_filename
\* The substitution without the "+": every reserved character yields a "_".
SubAtEach(s, i) == IF SubSeq(s, i, i) \in Reserved THEN "_" ELSE SubSeq(s, i, i)

\* What re.sub(r'[<>:"/\\|?*]+', "_", s) puts out for the character at
\* position i. A match of [..]+ is a maximal run of reserved characters
\* (leftmost, greedy) and is replaced as a whole by one "_": the first
\* character of a run yields the "_", the following ones yield nothing, and a
\* character outside the class is copied.
SubAt(s, i) ==
    IF CharAt(s, i) \in Reserved
    THEN (IF i > 1 /\ CharAt(s, i - 1) \in Reserved THEN "" ELSE "_")
    ELSE CharAt(s, i)

\* The output for positions lo..hi, concatenated in order (by halves, so that
\* the evaluation depth stays logarithmic in the length).
RECURSIVE ReSubRange(_, _, _)
ReSubRange(s, lo, hi) ==
    IF lo > hi THEN ""
    ELSE IF lo = hi THEN SubAt(s, lo)
    ELSE LET mid == (lo + hi) \div 2
         IN  ReSubRange(s, lo, mid) \o ReSubRange(s, mid + 1, hi)

ReSub(s) == ReSubRange(s, 1, Len(s))

\* The policy without its fallback for the empty string.
sanitize_no_fallback(url) == Prefix(ReSub(url), MAX_NAME_LEN)

sanitize_filename(url) ==
    IF url = "" THEN "unknown_source"
    ELSE Prefix(ReSub(url), MAX_NAME_LEN)

\* ------------------------------------------------------------------- paths
\* The entries of ~/Downloads the model follows, by name.
Names == {"report.pdf.download", "report.pdf", "photo.jpg"}

\* The position of the last "." of name, 0 when there is none.
LastDot(name) ==
    LET dots == {i \in 1..Len(name) : CharAt(name, i) = "."}
    IN  IF dots = {} THEN 0 ELSE CHOOSE i \in dots : \A j \in dots : j <= i

\* pathlib's Path.suffix: the name from its last "." on, unless that "." leads
\* or ends the name.
Suffix(name) ==
    LET d == LastDot(name)
    IN  IF 1 < d /\ d < Len(name) THEN SubSeq(name, d, Len(name)) ELSE ""

\* Path(str(path)[:-9])
StripMarker(name) == SubSeq(name, 1, Len(name) - MARKER_LEN)

\* The test on any suffix at all: if not path.suffix: return path
HasAnySuffix(name) == Suffix(name) # ""

\* path.suffix != ".download" is false
HasMarker(name) == Suffix(name) = ".download"

\* ----------------------------------------------------------- get_safari_url
\* What osascript may print: nothing (no open document, or the script failed),
\* or the URL of the current tab, each followed by a line break or not.
Stdouts == {"", "\n", "https://example.com/invoice?id=42\n"}

Whitespace == {" ", "\n", "\t", "\r"}

\* str.strip()
Strip(s) ==
    LET keep == {i \in 1..Len(s) : CharAt(s, i) \notin Whitespace}
    IN  IF keep = {} THEN ""
        ELSE SubSeq(s, CHOOSE i \in keep : \A j \in keep : i <= j,
                       CHOOSE i \in keep : \A j \in keep : j <= i)

\* What a file holds (the model tells contents apart, no more): the files
\* there when the watcher starts hold Original, the files the environment
\* writes later hold Written. NoFile marks a name that has no file.
NoFile == 0
Original == 1
Written == 2

\* The names process_event can give a file in DEST_DIR.
DestNames ==
    {sanitize_filename(Strip(o)) \o Suffix(n) : o \in Stdouts, n \in Names}

\* ------------------------------------------------------------------- state
VARIABLES
    fs,             \* ~/Downloads: name -> content, 0 when there is no such file
    dest,           \* DEST_DIR: name -> content, 0 when there is no such file
    pc,             \* where the observer thread is
    ev_path,        \* the path of the event being handled
    path,           \* process_event's local path
    elapsed,        \* time.time() - start_time, in seconds, until line 92
    polls,          \* iterations of the resolver's loop in this call
    sleeps,         \* time.sleep(1) calls in this call
    warned,         \* the resolver printed its time-out warning
    final_appeared, \* the final file existed at some time while the resolver waited
    final_created,  \* the final file was created while the resolver waited
    safari_url,     \* what get_safari_url returned
    new_path,       \* the name in DEST_DIR the file is moved to
    moves,          \* files moved into DEST_DIR for this event
    replaced,       \* the content the target held before the move, 0 if none
    outcome,        \* "relocated" or "failed" after the move attempt
    err,            \* the exception process_event caught and printed
    handled,        \* events delivered so far
    env_steps,      \* changes the environment has made so far
    dropped         \* why the last event was dropped, "" if it was handled

watcher_vars ==
    <<fs, dest, pc, ev_path, path, elapsed, polls, sleeps, warned,
      final_appeared, final_created, safari_url, new_path, moves, replaced,
      outcome, err, handled, env_steps, dropped>>

\* The Naming Policy applied to generated inputs, once and then to its own
\* output.
VARIABLES san_in, san_out, san_twice, san_pc

san_vars == <<san_in, san_out, san_twice, san_pc>>

\* The main thread of a watcher (main.py, screenshot.py) and its observer.
VARIABLES
    prog,           \* the program that runs
    main_pc,        \* where the main thread is
    main_clock,     \* seconds the main loop has slept
    observer,       \* "new", "running", "stopping" (stop() called), "ended"
    obs_busy,       \* the observer thread is inside the handler
    obs_events,     \* events the observer thread has taken
    calls           \* the observer methods the main thread has called, in order

main_vars ==
    <<prog, main_pc, main_clock, observer, obs_busy, obs_events, calls>>

MainUnused ==
    /\ prog = ""
    /\ main_pc = "unused"
    /\ main_clock = 0
    /\ observer = "new"
    /\ obs_busy = FALSE
    /\ obs_events = 0
    /\ calls = <<>>

\* extract_largest_text (screenshot.py) applied to generated OCR output.
VARIABLES
    ocr_data,       \* what image_to_data returned: entries of text and height
    ocr_raises,     \* opening the image or the OCR raises
    ocr_pc,         \* "start", then "done"
    ocr_result      \* what extract_largest_text returned

ocr_vars == <<ocr_data, ocr_raises, ocr_pc, ocr_result>>

OcrUnused ==
    /\ ocr_data = <<>>
    /\ ocr_raises = FALSE
    /\ ocr_pc = "unused"
    /\ ocr_result = <<>>

\* The screenshot watcher (screenshot.py): ~/Desktop and the handler.
VARIABLES
    desktop,        \* ~/Desktop: name -> content, 0 when there is no such file
    shot_pc,        \* where the observer thread is in on_created
    shot_path,      \* the file name of event.src_path
    shot_norm,      \* the file name of normalized_path
    shot_text,      \* what extract_largest_text returned
    shot_renames,   \* os.rename calls made for the last event that succeeded
    shot_err,       \* the exception caught and printed for the last event
    shot_events,    \* events delivered so far
    shot_env        \* changes the environment has made so far

shot_vars ==
    <<desktop, shot_pc, shot_path, shot_norm, shot_text, shot_renames,
      shot_err, shot_events, shot_env>>

ShotUnused ==
    /\ desktop = <<>>
    /\ shot_pc = "unused"
    /\ shot_path = ""
    /\ shot_norm = ""
    /\ shot_text = <<>>
    /\ shot_renames = 0
    /\ shot_err = ""
    /\ shot_events = 0
    /\ shot_env = 0

\* The audio endpoint (iphone.py): the requests in flight and the uploads
\* directory.
VARIABLES
    clock,          \* datetime.now(), in seconds
    uploads,        \* UPLOAD_DIR: name -> the request whose audio the file
                    \* comes from, 0 when there is no such file
    req_pc,         \* request -> where its call of upload_audio is
    req_ts,         \* request -> timestamp
    req_name,       \* request -> filename
    delivered       \* request -> the request whose answer it was sent, 0 if none

audio_vars == <<clock, uploads, req_pc, req_ts, req_name, delivered>>

AudioUnused ==
    /\ clock = 0
    /\ uploads = <<>>
    /\ req_pc = <<>>
    /\ req_ts = <<>>
    /\ req_name = <<>>
    /\ delivered = <<>>

\* The other programs of the repository, each checked under a specification
\* of its own.
ext_vars == <<main_vars, ocr_vars, shot_vars, audio_vars>>

ExtUnused == MainUnused /\ OcrUnused /\ ShotUnused /\ AudioUnused

\* What no step of process_event touches.
rest_vars == <<dropped, san_vars, ext_vars>>

vars == <<watcher_vars, san_vars, ext_vars>>

\* ------------------------------------------------------------- the watcher
InitWatcher ==
    /\ fs \in [Names -> {NoFile, Original}]
    /\ dest = [n \in DestNames |-> NoFile]
    /\ pc = "idle"
    /\ ev_path = ""
    /\ path = ""
    /\ elapsed = 0
    /\ polls = 0
    /\ sleeps = 0
    /\ warned = FALSE
    /\ final_appeared = FALSE
    /\ final_created = FALSE
    /\ safari_url = ""
    /\ new_path = ""
    /\ moves = 0
    /\ replaced = NoFile
    /\ outcome = "none"
    /\ err = ""
    /\ handled = 0
    /\ env_steps = 0
    /\ dropped = ""

SanUnused ==
    /\ san_in = ""
    /\ san_out = ""
    /\ san_twice = ""
    /\ san_pc = "unused"

Init == InitWatcher /\ SanUnused /\ ExtUnused

\* The resolver is between its first and its last look at the clock.
Waiting == pc \in {"loop", "poll_final", "sleep"}

\* The resolver has returned and process_event goes on, or has just ended.
PastResolver == pc \in {"delay", "query", "move", "done"}

\* The observer thread is inside process_event.
Handling ==
    pc \in {"resolve", "loop", "poll_final", "sleep", "delay", "query", "move"}

resolver_vars == <<elapsed, polls, sleeps, warned>>
ghost_vars == <<final_appeared, final_created>>
move_vars == <<safari_url, new_path, moves, replaced, outcome, err>>

\* Path.exists() in ~/Downloads, in the filesystem f
ExistsIn(f, n) == n \in DOMAIN f /\ f[n] # NoFile

Exists(n) == ExistsIn(fs, n)

\* ---- the environment: the browser and whatever else writes to ~/Downloads
EnvAllowed == env_steps < MaxEnv /\ (pc = "idle" \/ Handling)

\* The final file of the call in progress exists in f while the resolver waits
\* and its time is not up.
AppearsIn(f) ==
    /\ Waiting
    /\ elapsed < TIMEOUT
    /\ ExistsIn(f, StripMarker(ev_path))

EnvFrame ==
    UNCHANGED <<dest, pc, ev_path, path, resolver_vars, move_vars, handled,
                rest_vars>>

EnvCreate(n) ==
    /\ EnvAllowed
    /\ ~Exists(n)
    /\ fs' = [fs EXCEPT ![n] = Written]
    /\ final_appeared' = (final_appeared \/ AppearsIn(fs'))
    /\ final_created' = (final_created \/ (AppearsIn(fs') /\ ~AppearsIn(fs)))
    /\ env_steps' = env_steps + 1
    /\ EnvFrame

EnvRemove(n) ==
    /\ EnvAllowed
    /\ Exists(n)
    /\ fs' = [fs EXCEPT ![n] = NoFile]
    /\ UNCHANGED <<final_appeared, final_created>>
    /\ env_steps' = env_steps + 1
    /\ EnvFrame

\* The browser ends a download: the marker file becomes the final file.
EnvComplete(n) ==
    /\ EnvAllowed
    /\ HasMarker(n)
    /\ Exists(n)
    /\ fs' = [fs EXCEPT ![n] = NoFile, ![StripMarker(n)] = fs[n]]
    /\ final_appeared' = (final_appeared \/ AppearsIn(fs'))
    /\ final_created' = (final_created \/ (AppearsIn(fs') /\ ~AppearsIn(fs)))
    /\ env_steps' = env_steps + 1
    /\ EnvFrame

\* ---- on_created / on_moved, and the first lines of process_event
\* process_event without its test of line 86: every file event is handled.
DispatchNoCheck(n, is_directory) ==
    /\ pc = "idle"
    /\ handled < MaxEvents
    /\ handled' = handled + 1
    /\ IF ~is_directory
       THEN /\ pc' = "resolve"
            /\ ev_path' = n
            /\ path' = n
            /\ dropped' = ""
       ELSE /\ dropped' = "directory"
            /\ UNCHANGED <<pc, ev_path, path>>
    /\ UNCHANGED <<fs, dest, resolver_vars, ghost_vars, move_vars,
                   env_steps, san_vars, ext_vars>>

\* A directory event is dropped; so is an event whose path no longer exists.
Dispatch(n, is_directory) ==
    /\ pc = "idle"
    /\ handled < MaxEvents
    /\ handled' = handled + 1
    /\ IF ~is_directory /\ Exists(n)
       THEN /\ pc' = "resolve"
            /\ ev_path' = n
            /\ path' = n
            /\ dropped' = ""
       ELSE /\ dropped' = IF is_directory THEN "directory" ELSE "missing"
            /\ UNCHANGED <<pc, ev_path, path>>
    /\ UNCHANGED <<fs, dest, resolver_vars, ghost_vars, move_vars,
                   env_steps, san_vars, ext_vars>>

\* ---- wait_for_download_complete
\* Lines 52-59: a path without the marker is returned as it is; otherwise the
\* clock is read and the final path computed.
Resolve ==
    /\ pc = "resolve"
    /\ IF ~HasMarker(path)
       THEN /\ pc' = "delay"
            /\ UNCHANGED final_appeared
       ELSE /\ pc' = "loop"
            /\ final_appeared' = Exists(StripMarker(path))
    /\ UNCHANGED <<final_created, fs, dest, ev_path, path, resolver_vars,
                   move_vars, handled,
                   env_steps, rest_vars>>

\* A loop without its time limit: while True
NoTimeLimit == TRUE

\* The loop condition: time.time() - start_time < timeout.
InTime == elapsed < TIMEOUT

\* Line 61 and the left operand of line 62: while the time is not up, look for
\* the marker file; when it is up, warn and return the marker path.
LoopHead ==
    /\ pc = "loop"
    /\ IF InTime
       THEN /\ polls' = polls + 1
            /\ pc' = IF ~Exists(path) THEN "poll_final" ELSE "sleep"
            /\ UNCHANGED warned
       ELSE /\ warned' = TRUE
            /\ pc' = "delay"
            /\ UNCHANGED polls
    /\ UNCHANGED <<fs, dest, ev_path, path, elapsed, sleeps, ghost_vars,
                   move_vars, handled, env_steps, rest_vars>>

\* The resolver returning the path it was given: return path
ResolvedMarker(p) == p

\* What the resolver returns once it has seen the marker gone and the final
\* file there.
Resolved(p) == StripMarker(p)

\* The right operand of line 62, and lines 63-64.
PollFinal ==
    /\ pc = "poll_final"
    /\ IF Exists(StripMarker(path))
       THEN /\ path' = Resolved(path)
            /\ pc' = "delay"
       ELSE /\ pc' = "sleep"
            /\ UNCHANGED path
    /\ UNCHANGED <<fs, dest, ev_path, resolver_vars, ghost_vars, move_vars,
                   handled, env_steps, rest_vars>>

\* Line 65: time.sleep(1)
Sleep ==
    /\ pc = "sleep"
    /\ elapsed' = elapsed + 1
    /\ sleeps' = sleeps + 1
    /\ pc' = "loop"
    /\ UNCHANGED <<fs, dest, ev_path, path, polls, warned, ghost_vars,
                   move_vars, handled, env_steps, rest_vars>>

\* ---- the rest of process_event
\* Line 92: time.sleep(WAIT_TIME). The resolver has returned: its clock and
\* its counts are gone with its frame.
Delay ==
    /\ pc = "delay"
    /\ pc' = "query"
    /\ elapsed' = 0
    /\ polls' = 0
    /\ sleeps' = 0
    /\ UNCHANGED <<fs, dest, ev_path, path, warned, ghost_vars, move_vars,
                   handled, env_steps, rest_vars>>

\* get_safari_url(), given what osascript printed
get_safari_url(stdout) == Strip(stdout)

\* Lines 93-95: the context query, the name, the target.
Query(stdout) ==
    /\ pc = "query"
    /\ safari_url' = get_safari_url(stdout)
    /\ new_path' = sanitize_filename(safari_url') \o Suffix(path)
    /\ pc' = "move"
    /\ UNCHANGED <<fs, dest, ev_path, path, resolver_vars, ghost_vars,
                   moves, replaced, outcome, err, handled, env_steps, rest_vars>>

\* subprocess.run cannot start osascript: the exception leaves get_safari_url,
\* process_event and the handler, and ends the observer thread.
QueryRaises ==
    /\ pc = "query"
    /\ pc' = "crashed"
    /\ UNCHANGED <<fs, dest, ev_path, path, resolver_vars, ghost_vars,
                   move_vars, handled, env_steps, rest_vars>>

\* A move that does not replace: FileExistsError when the target is there.
MoveNoOverwrite ==
    /\ pc = "move"
    /\ ExistsIn(fs, path)
    /\ IF dest[new_path] # NoFile
       THEN /\ outcome' = "failed"
            /\ err' = "FileExistsError"
            /\ UNCHANGED <<fs, dest, moves, replaced>>
       ELSE /\ replaced' = dest[new_path]
            /\ dest' = [dest EXCEPT ![new_path] = fs[path]]
            /\ fs' = [fs EXCEPT ![path] = NoFile]
            /\ moves' = moves + 1
            /\ outcome' = "relocated"
            /\ err' = ""
    /\ pc' = "done"
    /\ UNCHANGED <<ev_path, path, resolver_vars, ghost_vars, safari_url,
                   new_path, handled, env_steps, rest_vars>>

\* A move made again after it succeeded: the thread stays at the move.
MoveOkRetry ==
    /\ pc = "move"
    /\ ExistsIn(fs, path)
    /\ replaced' = dest[new_path]
    /\ dest' = [dest EXCEPT ![new_path] = fs[path]]
    /\ fs' = [fs EXCEPT ![path] = NoFile]
    /\ moves' = moves + 1
    /\ outcome' = "relocated"
    /\ err' = ""
    /\ pc' = "move"
    /\ UNCHANGED <<ev_path, path, resolver_vars, ghost_vars, safari_url,
                   new_path, handled, env_steps, rest_vars>>

\* Line 98 when the rename is made. shutil.move(src, dst) within one
\* filesystem is os.rename: a file at the target is replaced.
MoveOk ==
    /\ pc = "move"
    /\ Exists(path)
    /\ replaced' = dest[new_path]
    /\ dest' = [dest EXCEPT ![new_path] = fs[path]]
    /\ fs' = [fs EXCEPT ![path] = NoFile]
    /\ moves' = moves + 1
    /\ outcome' = "relocated"
    /\ err' = ""
    /\ pc' = "done"
    /\ UNCHANGED <<ev_path, path, resolver_vars, ghost_vars, safari_url,
                   new_path, handled, env_steps, rest_vars>>

\* Line 98 when the source is gone: FileNotFoundError, caught at line 100.
MoveNoSource ==
    /\ pc = "move"
    /\ ~Exists(path)
    /\ outcome' = "failed"
    /\ err' = "FileNotFoundError"
    /\ pc' = "done"
    /\ UNCHANGED <<fs, dest, ev_path, path, resolver_vars, ghost_vars,
                   safari_url, new_path, moves, replaced, handled, env_steps,
                   rest_vars>>

\* A refused rename outside any try: the exception ends the observer thread.
MoveDeniedRaises ==
    /\ pc = "move"
    /\ Exists(path)
    /\ pc' = "crashed"
    /\ UNCHANGED <<fs, dest, ev_path, path, resolver_vars, ghost_vars,
                   move_vars, handled, env_steps, rest_vars>>

\* Line 98 when the operating system refuses the rename: PermissionError,
\* caught at line 100.
MoveDenied ==
    /\ pc = "move"
    /\ Exists(path)
    /\ outcome' = "failed"
    /\ err' = "PermissionError"
    /\ pc' = "done"
    /\ UNCHANGED <<fs, dest, ev_path, path, resolver_vars, ghost_vars,
                   safari_url, new_path, moves, replaced, handled, env_steps,
                   rest_vars>>

\* process_event returns; the observer thread takes the next event.
Return ==
    /\ pc = "done"
    /\ pc' = "idle"
    /\ ev_path' = ""
    /\ path' = ""
    /\ elapsed' = 0
    /\ polls' = 0
    /\ sleeps' = 0
    /\ warned' = FALSE
    /\ final_appeared' = FALSE
    /\ final_created' = FALSE
    /\ safari_url' = ""
    /\ new_path' = ""
    /\ moves' = 0
    /\ replaced' = NoFile
    /\ outcome' = "none"
    /\ err' = ""
    /\ UNCHANGED <<fs, dest, handled, env_steps, rest_vars>>

Next ==
    \/ \E n \in Names : EnvCreate(n)
    \/ \E n \in Names : EnvRemove(n)
    \/ \E n \in Names : EnvComplete(n)
    \/ \E n \in Names, d \in BOOLEAN : Dispatch(n, d)
    \/ Resolve
    \/ LoopHead
    \/ PollFinal
    \/ Sleep
    \/ Delay
    \/ \E o \in Stdouts : Query(o)
    \/ QueryRaises
    \/ MoveOk
    \/ MoveNoSource
    \/ MoveDenied
    \/ Return

Spec == Init /\ [][Next]_vars

\* The observer thread keeps running: a sleep ends, a call returns. What
\* osascript prints, and whether the rename is refused, is not up to the thread.
ThreadSteps ==
    Resolve \/ LoopHead \/ PollFinal \/ Sleep \/ Delay
    \/ (\E o \in Stdouts : Query(o)) \/ QueryRaises
    \/ MoveOk \/ MoveNoSource \/ MoveDenied \/ Return

FairSpec == Spec /\ WF_vars(ThreadSteps)

\* ------------------------------------------------ the Naming Policy, alone
\* The characters inputs are made of: the nine characters the specification
\* lists as reserved and three others, around a filler of one character.
Chars == {"<", ">", ":", "\"", "/", "\\", "|", "?", "*", "a", "_", "."}
AffixChars == {"a", "/", "?"}

RECURSIVE StrsOfLen(_, _)
StrsOfLen(A, n) ==
    IF n = 0 THEN {""} ELSE {c \o t : c \in A, t \in StrsOfLen(A, n - 1)}

StrsUpTo(A, n) == UNION {StrsOfLen(A, k) : k \in 0..n}

FillLens == (0..Slack) \cup ((MAX_NAME_LEN - Slack)..(MAX_NAME_LEN + Slack))

SanInputs ==
    {p \o Rep(c, n) \o q :
        p \in StrsUpTo(AffixChars, MaxPre), c \in Chars, n \in FillLens,
        q \in StrsUpTo(AffixChars, MaxSuf)}

WatcherUnused ==
    /\ fs = [n \in Names |-> NoFile]
    /\ dest = [n \in DestNames |-> NoFile]
    /\ pc = "unused"
    /\ ev_path = ""
    /\ path = ""
    /\ elapsed = 0
    /\ polls = 0
    /\ sleeps = 0
    /\ warned = FALSE
    /\ final_appeared = FALSE
    /\ final_created = FALSE
    /\ safari_url = ""
    /\ new_path = ""
    /\ moves = 0
    /\ replaced = NoFile
    /\ outcome = "none"
    /\ err = ""
    /\ handled = 0
    /\ env_steps = 0
    /\ dropped = ""

SanInit ==
    /\ san_in \in SanInputs
    /\ san_out = ""
    /\ san_twice = ""
    /\ san_pc = "start"
    /\ WatcherUnused
    /\ ExtUnused

SanApply ==
    /\ san_pc = "start"
    /\ san_out' = sanitize_filename(san_in)
    /\ san_pc' = "once"
    /\ UNCHANGED <<san_in, san_twice, watcher_vars, ext_vars>>

SanApplyAgain ==
    /\ san_pc = "once"
    /\ san_twice' = sanitize_filename(san_out)
    /\ san_pc' = "twice"
    /\ UNCHANGED <<san_in, san_out, watcher_vars, ext_vars>>

SanNext == SanApply \/ SanApplyAgain

SanSpec == SanInit /\ [][SanNext]_vars

\* --------------------------------------- __main__: start, loop, stop, join
Programs == {"main.py", "screenshot.py"}

\* The sleep of the main loop, in seconds: time.sleep(1), time.sleep(2)
LoopSleep(p) == IF p = "main.py" THEN 1 ELSE 2

MainInit ==
    /\ prog \in Programs
    /\ main_pc = "start"
    /\ main_clock = 0
    /\ observer = "new"
    /\ obs_busy = FALSE
    /\ obs_events = 0
    /\ calls = <<>>
    /\ WatcherUnused
    /\ SanUnused
    /\ OcrUnused
    /\ ShotUnused
    /\ AudioUnused

main_rest == <<watcher_vars, san_vars, ocr_vars, shot_vars, audio_vars>>

\* observer.schedule(...); observer.start()
MainStart ==
    /\ main_pc = "start"
    /\ observer' = "running"
    /\ calls' = Append(calls, "start")
    /\ main_pc' = "loop"
    /\ UNCHANGED <<prog, main_clock, obs_busy, obs_events, main_rest>>

\* One round of the loop: while True: time.sleep(...)
MainSleep ==
    /\ main_pc = "loop"
    /\ main_clock + LoopSleep(prog) <= MaxClock
    /\ main_clock' = main_clock + LoopSleep(prog)
    /\ UNCHANGED <<prog, main_pc, observer, obs_busy, obs_events, calls,
                   main_rest>>

\* The interrupt signal: KeyboardInterrupt is raised in the loop and caught by
\* the except clause.
Interrupt ==
    /\ main_pc = "loop"
    /\ main_pc' = "except"
    /\ UNCHANGED <<prog, main_clock, observer, obs_busy, obs_events, calls,
                   main_rest>>

\* The except clause with its two calls in the other order: join, then stop.
MainJoinFirst ==
    /\ main_pc = "except"
    /\ calls' = Append(calls, "join")
    /\ main_pc' = "joining"
    /\ UNCHANGED <<prog, main_clock, observer, obs_busy, obs_events,
                   main_rest>>

\* observer.stop(): the observer thread is told to end.
MainStop ==
    /\ main_pc = "except"
    /\ observer' = (IF observer = "running" THEN "stopping" ELSE observer)
    /\ calls' = Append(calls, "stop")
    /\ main_pc' = (IF prog = "main.py" THEN "print" ELSE "join")
    /\ UNCHANGED <<prog, main_clock, obs_busy, obs_events, main_rest>>

\* main.py: print("Stopped listener.")
MainPrint ==
    /\ main_pc = "print"
    /\ main_pc' = "join"
    /\ UNCHANGED <<prog, main_clock, observer, obs_busy, obs_events, calls,
                   main_rest>>

\* observer.join() is called, after the try statement.
MainJoin ==
    /\ main_pc = "join"
    /\ calls' = Append(calls, "join")
    /\ main_pc' = "joining"
    /\ UNCHANGED <<prog, main_clock, observer, obs_busy, obs_events,
                   main_rest>>

\* observer.join() returns when the observer thread has ended; the program
\* ends.
MainExit ==
    /\ main_pc = "joining"
    /\ observer = "ended"
    /\ main_pc' = "exit"
    /\ UNCHANGED <<prog, main_clock, observer, obs_busy, obs_events, calls,
                   main_rest>>

\* The observer thread takes an event and calls the handler.
ObsEvent ==
    /\ observer = "running"
    /\ ~obs_busy
    /\ obs_events < MaxEvents
    /\ obs_busy' = TRUE
    /\ obs_events' = obs_events + 1
    /\ UNCHANGED <<prog, main_pc, main_clock, observer, calls, main_rest>>

\* The handler returns.
ObsHandled ==
    /\ obs_busy
    /\ obs_busy' = FALSE
    /\ UNCHANGED <<prog, main_pc, main_clock, observer, obs_events, calls,
                   main_rest>>

\* The handler raises (main.py line 93, screenshot.py line 79): the observer
\* thread ends with the exception.
ObsRaises ==
    /\ obs_busy
    /\ obs_busy' = FALSE
    /\ observer' = "ended"
    /\ UNCHANGED <<prog, main_pc, main_clock, obs_events, calls, main_rest>>

\* The observer thread, told to stop and not inside the handler, ends.
ObsEnd ==
    /\ observer = "stopping"
    /\ ~obs_busy
    /\ observer' = "ended"
    /\ UNCHANGED <<prog, main_pc, main_clock, obs_busy, obs_events, calls,
                   main_rest>>

MainNext ==
    \/ MainStart
    \/ MainSleep
    \/ Interrupt
    \/ MainStop
    \/ MainPrint
    \/ MainJoin
    \/ MainExit
    \/ ObsEvent
    \/ ObsHandled
    \/ ObsRaises
    \/ ObsEnd

\* Both threads keep running: a call returns, the handler returns, a thread
\* told to stop ends. When the interrupt comes is not up to the program.
MainSteps ==
    MainStart \/ MainStop \/ MainPrint \/ MainJoin \/ MainExit
    \/ ObsHandled \/ ObsEnd

MainSpec == MainInit /\ [][MainNext]_vars /\ WF_vars(MainSteps)

\* ---------------------------------------------------- extract_largest_text
\* A value of Python that is None or a string: <<>> or <<string>>.
None == <<>>
Some(t) == <<t>>

Alnum ==
    {"A", "B", "C", "D", "E", "F", "G", "H", "I", "J", "K", "L", "M",
     "N", "O", "P", "Q", "R", "S", "T", "U", "V", "W", "X", "Y", "Z",
     "a", "b", "c", "d", "e", "f", "g", "h", "i", "j", "k", "l", "m",
     "n", "o", "p", "q", "r", "s", "t", "u", "v", "w", "x", "y", "z",
     "0", "1", "2", "3", "4", "5", "6", "7", "8", "9"}

\* What re.sub(r"[^A-Za-z0-9]+", "_", s) puts out for the character at
\* position i: the first character of a run outside the class yields the "_",
\* the following ones yield nothing.
OcrSubAt(s, i) ==
    IF CharAt(s, i) \notin Alnum
    THEN (IF i > 1 /\ CharAt(s, i - 1) \notin Alnum THEN "" ELSE "_")
    ELSE CharAt(s, i)

RECURSIVE OcrSubRange(_, _, _)
OcrSubRange(s, lo, hi) ==
    IF lo > hi THEN ""
    ELSE IF lo = hi THEN OcrSubAt(s, lo)
    ELSE LET mid == (lo + hi) \div 2
         IN  OcrSubRange(s, lo, mid) \o OcrSubRange(s, mid + 1, hi)

OcrSub(s) == OcrSubRange(s, 1, Len(s))

\* The comparison that lets a later entry of the same height win.
TallerOrEqual(height, max_height) == height >= max_height

\* Line 46: if height > max_height
Taller(height, max_height) == height > max_height

\* The loop of lines 42-48 from entry i on, with the locals max_height and
\* largest_text.
RECURSIVE Scan(_, _, _, _)
Scan(data, i, max_height, largest_text) ==
    IF i > Len(data) THEN largest_text
    ELSE LET text == Strip(data[i].text)
             height == data[i].height
         IN  IF text # "" /\ Taller(height, max_height)
             THEN Scan(data, i + 1, height, Some(text))
             ELSE Scan(data, i + 1, max_height, largest_text)

\* Lines 38-53, when nothing raises.
extract_largest_text(data) ==
    LET largest_text == Scan(data, 1, 0, None)
    IN  IF largest_text # None
        THEN Some(OcrSub(Strip(largest_text[1])))
        ELSE None

\* The texts of OCR entries: empty, blank, a word, a word in blanks, words and
\* signs, signs only.
OcrTexts == {"", " ", "Hi", " Hi ", "a, b!", "?!"}

OcrEntries == [text : OcrTexts, height : 0..MaxHeight]

RECURSIVE SeqsOfLen(_, _)
SeqsOfLen(S, n) ==
    IF n = 0 THEN {<<>>}
    ELSE {Append(q, x) : q \in SeqsOfLen(S, n - 1), x \in S}

OcrInputs == UNION {SeqsOfLen(OcrEntries, n) : n \in 0..MaxEntries}

OcrInit ==
    /\ ocr_data \in OcrInputs
    /\ ocr_raises \in BOOLEAN
    /\ ocr_pc = "start"
    /\ ocr_result = None
    /\ WatcherUnused
    /\ SanUnused
    /\ MainUnused
    /\ ShotUnused
    /\ AudioUnused

ocr_rest == <<watcher_vars, san_vars, main_vars, shot_vars, audio_vars>>

\* The function returns from its try block.
OcrReturn ==
    /\ ocr_pc = "start"
    /\ ~ocr_raises
    /\ ocr_result' = extract_largest_text(ocr_data)
    /\ ocr_pc' = "done"
    /\ UNCHANGED <<ocr_data, ocr_raises, ocr_rest>>

\* Lines 54-56: the exception is caught and printed, None is returned.
OcrExcept ==
    /\ ocr_pc = "start"
    /\ ocr_raises
    /\ ocr_result' = None
    /\ ocr_pc' = "done"
    /\ UNCHANGED <<ocr_data, ocr_raises, ocr_rest>>

OcrNext == OcrReturn \/ OcrExcept

OcrSpec == OcrInit /\ [][OcrNext]_vars

\* ------------------------------------------------- the screenshot watcher
\* Stand-ins for the two characters of line 18 that a string of this module
\* cannot hold: "^" for U+202F (narrow no-break space), "~" for U+00A0
\* (no-break space).
NNBSP == "^"
NBSP == "~"

\* filename.replace(U+202F, " ").replace(U+00A0, " "), one character
SpaceAt(s, i) == IF CharAt(s, i) \in {NNBSP, NBSP} THEN " " ELSE CharAt(s, i)

RECURSIVE ReplaceSpacesFrom(_, _)
ReplaceSpacesFrom(s, i) ==
    IF i > Len(s) THEN "" ELSE SpaceAt(s, i) \o ReplaceSpacesFrom(s, i + 1)

ReplaceSpaces(s) == ReplaceSpacesFrom(s, 1)

UpperCase == "ABCDEFGHIJKLMNOPQRSTUVWXYZ"
LowerCase == "abcdefghijklmnopqrstuvwxyz"

\* str.lower(), one character
LowerAt(s, i) ==
    LET c == CharAt(s, i)
        at == {k \in 1..Len(UpperCase) : CharAt(UpperCase, k) = c}
    IN  IF at = {} THEN c ELSE CharAt(LowerCase, CHOOSE k \in at : TRUE)

RECURSIVE LowerFrom(_, _)
LowerFrom(s, i) ==
    IF i > Len(s) THEN "" ELSE LowerAt(s, i) \o LowerFrom(s, i + 1)

Lower(s) == LowerFrom(s, 1)

StartsWith(s, p) == Len(s) >= Len(p) /\ SubSeq(s, 1, Len(p)) = p

EndsWith(s, p) == Len(s) >= Len(p) /\ SubSeq(s, Len(s) - Len(p) + 1, Len(s)) = p

\* Lines 15-25 on the file name: the directory stays.
normalize_name(filename) ==
    LET spaced == ReplaceSpaces(filename)
    IN  IF StartsWith(spaced, ".") THEN SubSeq(spaced, 2, Len(spaced))
        ELSE spaced

\* The test of line 69
IsScreenshot(filename) ==
    /\ StartsWith(Lower(filename), "screenshot")
    /\ \E e \in {".png", ".jpg", ".jpeg"} : EndsWith(Lower(filename), e)

\* os.path.splitext(filename)[1]: from the last "." on, unless only dots
\* come before it.
SplitExt(filename) ==
    LET d == LastDot(filename)
        lead == {i \in 1..Len(filename) :
                    \A j \in 1..i : CharAt(filename, j) = "."}
    IN  IF d > Cardinality(lead) THEN SubSeq(filename, d, Len(filename))
        ELSE ""

\* datetime.now().strftime("%Y-%m-%d")
Today == "2024-05-17"

\* Lines 73-76: the new name from the text, the date and the extension.
NewName(text, filename) == text \o "_" \o Today \o SplitExt(filename)

\* The files that come to be on the Desktop: the Finder's .DS_Store, a note,
\* a picture that is no screenshot, and screenshots as macOS names them (with
\* U+202F before AM, and first written under a name with a leading dot).
CreatedNames ==
    {".DS_Store", "notes~v2.txt", "photo.png",
     "Screenshot 1^AM.png", ".Screenshot 1^AM.png", "SCREENSHOT.JPG"}

\* What extract_largest_text returns for a picture: None or the text.
ShotTexts == {None, Some("Invoice")}

DesktopNames ==
    CreatedNames
    \cup {normalize_name(n) : n \in CreatedNames}
    \cup {NewName(t[1], normalize_name(n)) :
            t \in ShotTexts \ {None}, n \in CreatedNames}

ShotInit ==
    /\ desktop \in {f \in [DesktopNames -> {NoFile, Original}] :
                      \A n \in DesktopNames \ CreatedNames : f[n] = NoFile}
    /\ shot_pc = "idle"
    /\ shot_path = ""
    /\ shot_norm = ""
    /\ shot_text = None
    /\ shot_renames = 0
    /\ shot_err = ""
    /\ shot_events = 0
    /\ shot_env = 0
    /\ WatcherUnused
    /\ SanUnused
    /\ MainUnused
    /\ OcrUnused
    /\ AudioUnused

shot_rest == <<watcher_vars, san_vars, main_vars, ocr_vars, audio_vars>>

\* A file of the Desktop goes away (removed, or moved by its owner).
ShotEnvRemove(n) ==
    /\ shot_env < MaxEnv
    /\ shot_pc \in {"idle", "sleep", "rename"}
    /\ ExistsIn(desktop, n)
    /\ desktop' = [desktop EXCEPT ![n] = NoFile]
    /\ shot_env' = shot_env + 1
    /\ UNCHANGED <<shot_pc, shot_path, shot_norm, shot_text, shot_renames,
                   shot_err, shot_events, shot_rest>>

\* on_created, lines 60-69: a directory event is dropped; the path is
\* normalised, with the file renamed when the name changes (a file that is
\* gone is reported and passed over, a file at the new name is replaced);
\* then the name is tested.
OnCreated(n, is_directory) ==
    /\ shot_pc = "idle"
    /\ shot_events < MaxEvents
    /\ shot_events' = shot_events + 1
    /\ shot_text' = None
    /\ IF is_directory
       THEN /\ shot_path' = ""
            /\ shot_norm' = ""
            /\ shot_renames' = 0
            /\ shot_err' = ""
            /\ UNCHANGED <<desktop, shot_pc>>
       ELSE LET clean == normalize_name(n)
            IN  /\ shot_path' = n
                /\ shot_norm' = clean
                /\ IF clean # n /\ ExistsIn(desktop, n)
                   THEN /\ desktop' = [desktop EXCEPT ![n] = NoFile,
                                                      ![clean] = desktop[n]]
                        /\ shot_renames' = 1
                        /\ shot_err' = ""
                   ELSE /\ shot_renames' = 0
                        /\ shot_err' = (IF clean # n THEN "FileNotFoundError"
                                        ELSE "")
                        /\ UNCHANGED desktop
                /\ shot_pc' = (IF IsScreenshot(clean) THEN "sleep" ELSE "idle")
    /\ UNCHANGED <<shot_env, shot_rest>>

\* Lines 70-72 and 80-81: time.sleep(1), then the OCR; without a text the
\* name is kept.
ShotOcr(text) ==
    /\ shot_pc = "sleep"
    /\ shot_text' = (IF ExistsIn(desktop, shot_norm) THEN text ELSE None)
    /\ shot_pc' = (IF shot_text' # None THEN "rename" ELSE "idle")
    /\ UNCHANGED <<desktop, shot_path, shot_norm, shot_renames, shot_err,
                   shot_events, shot_env, shot_rest>>

\* Lines 73-79: os.rename(normalized_path, new_path); a file at the new name
\* is replaced.
ShotRename ==
    /\ shot_pc = "rename"
    /\ ExistsIn(desktop, shot_norm)
    /\ LET new_name == NewName(shot_text[1], shot_norm)
       IN  desktop' = [desktop EXCEPT ![shot_norm] = NoFile,
                                      ![new_name] = desktop[shot_norm]]
    /\ shot_renames' = shot_renames + 1
    /\ shot_pc' = "idle"
    /\ UNCHANGED <<shot_path, shot_norm, shot_text, shot_err, shot_events,
                   shot_env, shot_rest>>

\* Line 79 when the file is gone: FileNotFoundError, outside any try; the
\* exception ends the observer thread.
ShotRenameRaises ==
    /\ shot_pc = "rename"
    /\ ~ExistsIn(desktop, shot_norm)
    /\ shot_pc' = "crashed"
    /\ UNCHANGED <<desktop, shot_path, shot_norm, shot_text, shot_renames,
                   shot_err, shot_events, shot_env, shot_rest>>

ShotNext ==
    \/ \E n \in CreatedNames : ShotEnvRemove(n)
    \/ \E n \in CreatedNames, d \in BOOLEAN : OnCreated(n, d)
    \/ \E t \in ShotTexts : ShotOcr(t)
    \/ ShotRename
    \/ ShotRenameRaises

ShotSpec == ShotInit /\ [][ShotNext]_vars

\* ------------------------------------------------------ the audio endpoint
Requests == 1..MaxRequests

Digits == "0123456789"

\* datetime.now().strftime("%Y%m%d_%H%M%S") at second t of the minute
Timestamp(t) == "20240517_10300" \o CharAt(Digits, t + 1)

\* The file part of a request: None for a raw body, or the filename the client
\* gave (which may be empty).
Files == {None, Some(""), Some("voice.m4a")}

\* Lines 25-31: the filename
Filename(file, timestamp) ==
    IF file # None /\ file[1] # "" THEN file[1]
    ELSE "recording_" \o timestamp \o ".m4a"

\* Line 41: os.path.splitext(original_path)[0] + ".mp3"
Mp3Name(filename) ==
    SubSeq(filename, 1, Len(filename) - Len(SplitExt(filename))) \o ".mp3"

\* Line 75
ResponseName(timestamp) == "response_" \o timestamp \o ".mp3"

UploadNames ==
    LET stamps == {Timestamp(t) : t \in 0..MaxSecs}
        names == {Filename(f, ts) : f \in Files, ts \in stamps}
    IN  names \cup {Mp3Name(n) : n \in names}
              \cup {ResponseName(ts) : ts \in stamps}

AudioInit ==
    /\ clock = 0
    /\ uploads = [n \in UploadNames |-> 0]
    /\ req_pc = [r \in Requests |-> "new"]
    /\ req_ts = [r \in Requests |-> ""]
    /\ req_name = [r \in Requests |-> ""]
    /\ delivered = [r \in Requests |-> 0]
    /\ WatcherUnused
    /\ SanUnused
    /\ MainUnused
    /\ OcrUnused
    /\ ShotUnused

audio_rest == <<watcher_vars, san_vars, main_vars, ocr_vars, shot_vars>>

\* A second passes.
AudioTick ==
    /\ clock < MaxSecs
    /\ clock' = clock + 1
    /\ UNCHANGED <<uploads, req_pc, req_ts, req_name, delivered, audio_rest>>

\* Lines 22-27 and 29-31, up to the await: the call takes its timestamp and
\* its filename and waits for the upload to be read; the event loop may run
\* another call meanwhile.
AudioStart(r, file) ==
    /\ req_pc[r] = "new"
    /\ req_ts' = [req_ts EXCEPT ![r] = Timestamp(clock)]
    /\ req_name' = [req_name EXCEPT ![r] = Filename(file, Timestamp(clock))]
    /\ req_pc' = [req_pc EXCEPT ![r] = "read"]
    /\ UNCHANGED <<clock, uploads, delivered, audio_rest>>

\* Lines 28-84, from the await to the return, with no await in between: the
\* upload is written, converted (a failed conversion returns the error),
\* transcribed and answered, and the speech is written to the response file.
AudioProcess(r, converts) ==
    /\ req_pc[r] = "read"
    /\ IF converts
       THEN LET stored == [uploads EXCEPT ![req_name[r]] = r]
                mp3 == [stored EXCEPT
                          ![Mp3Name(req_name[r])] = stored[req_name[r]]]
            IN  /\ uploads' = [mp3 EXCEPT ![ResponseName(req_ts[r])] =
                                            mp3[Mp3Name(req_name[r])]]
                /\ req_pc' = [req_pc EXCEPT ![r] = "sending"]
       ELSE /\ uploads' = [uploads EXCEPT ![req_name[r]] = r]
            /\ req_pc' = [req_pc EXCEPT ![r] = "error"]
    /\ UNCHANGED <<clock, req_ts, req_name, delivered, audio_rest>>

\* The FileResponse returned at line 80 is sent: the server opens the file at
\* response_path and sends what it holds then.
AudioSend(r) ==
    /\ req_pc[r] = "sending"
    /\ delivered' = [delivered EXCEPT ![r] = uploads[ResponseName(req_ts[r])]]
    /\ req_pc' = [req_pc EXCEPT ![r] = "done"]
    /\ UNCHANGED <<clock, uploads, req_ts, req_name, audio_rest>>

AudioNext ==
    \/ AudioTick
    \/ \E r \in Requests, f \in Files : AudioStart(r, f)
    \/ \E r \in Requests, c \in BOOLEAN : AudioProcess(r, c)
    \/ \E r \in Requests : AudioSend(r)

AudioSpec == AudioInit /\ [][AudioNext]_vars

\* ================================================================== claims
\* The reserved characters as the specification lists them.
ListedReserved == {"<", ">", ":", "\"", "/", "\\", "|", "?", "*"}

HasListedReserved(s) == \E i \in 1..Len(s) : CharAt(s, i) \in ListedReserved

\* C1: for every delivered create or move event, process_event moves at most
\* one file into the destination directory, whatever the environment does to
\* the filesystem meanwhile.
C1_AtMostOneMove == moves <= 1

\* An event whose file the environment touched while it was handled, moved.
C1_Witness == pc = "done" /\ moves = 1 /\ env_steps > 0

\* C2: the result of sanitize_filename contains none of the reserved
\* characters < > : " / \ | ? *, for every input.
C2_NoReserved == san_pc \in {"once", "twice"} => ~HasListedReserved(san_out)

C2_Witness ==
    /\ san_pc = "once"
    /\ HasListedReserved(san_in)
    /\ Len(san_in) > MAX_NAME_LEN
    /\ san_out # "unknown_source"

\* The scenario of C3: the event is for report.pdf.download, the resolver has
\* returned report.pdf, and the context query returned the invoice URL.
C3_Scenario ==
    /\ ev_path = "report.pdf.download"
    /\ path = "report.pdf"
    /\ safari_url = "https://example.com/invoice?id=42"

\* C3 as stated: every reserved character becomes one underscore of its own
\* (runs are not collapsed), so the relocated file of the scenario is named
\* https___example.com_invoice_id_42.pdf.
C3_Original ==
    (pc = "done" /\ C3_Scenario /\ outcome = "relocated")
        => /\ new_path = "https___example.com_invoice_id_42.pdf"
           /\ ExistsIn(dest, "https___example.com_invoice_id_42.pdf")

\* C3, amended: every maximal run of reserved characters becomes one
\* underscore ("://" yields a single "_") and "=" is not reserved, so in the
\* scenario the target name is https_example.com_invoice_id=42.pdf, and a move
\* that finds report.pdf and is not refused puts its content there and removes
\* it from ~/Downloads.
C3_CollapsedName ==
    [][(/\ pc = "move"
        /\ pc' = "done"
        /\ C3_Scenario
        /\ Exists("report.pdf")
        /\ err' # "PermissionError")
          => /\ new_path = "https_example.com_invoice_id=42.pdf"
             /\ outcome' = "relocated"
             /\ dest'["https_example.com_invoice_id=42.pdf"] = fs["report.pdf"]
             /\ fs'["report.pdf"] = NoFile]_vars

\* The scenario ended after report.pdf appeared while the resolver waited.
C3_Witness ==
    /\ pc = "done"
    /\ C3_Scenario
    /\ final_created
    /\ outcome = "relocated"
    /\ ExistsIn(dest, "https_example.com_invoice_id=42.pdf")

\* The characters of s that a run-collapsing substitution drops: the reserved
\* ones that follow a reserved one.
Dropped(s) ==
    Cardinality({i \in 2..Len(s) :
        CharAt(s, i) \in ListedReserved /\ CharAt(s, i - 1) \in ListedReserved})

\* C4 as stated: the output is at most 200 characters long, and exactly 200
\* for every input longer than 200.
C4_Original ==
    san_pc = "once"
        => /\ Len(san_out) <= 200
           /\ Len(san_in) > 200 => Len(san_out) = 200

\* C4, amended: the output is at most 200 characters long; for a non-empty
\* input of n characters, d of them reserved and directly after a reserved
\* one, it is min(200, n - d) long: exactly 200 when n - d >= 200, so for
\* every input longer than 200 without two adjacent reserved characters.
C4_Length ==
    san_pc = "once"
        => /\ Len(san_out) <= 200
           /\ san_in # ""
                => Len(san_out) = Min(200, Len(san_in) - Dropped(san_in))

C4_Witness ==
    /\ san_pc = "once"
    /\ Len(san_in) > 200
    /\ Dropped(san_in) > 0
    /\ Len(san_out) = 200

\* C5 as stated: sanitize_filename applied to its own output returns it, and
\* a string without reserved characters of at most 200 characters (the empty
\* string is one) is returned unchanged.
C5_Original ==
    /\ san_pc = "twice" => san_twice = san_out
    /\ (san_pc \in {"once", "twice"} /\ ~HasListedReserved(san_in)
            /\ Len(san_in) <= 200)
        => san_out = san_in

\* C5, amended: sanitize_filename applied to its own output returns it, for
\* every input (the empty string too), and a non-empty string without reserved
\* characters of at most 200 characters is returned unchanged.
C5_Idempotent ==
    /\ san_pc = "twice" => san_twice = san_out
    /\ (san_pc \in {"once", "twice"} /\ san_in # ""
            /\ ~HasListedReserved(san_in) /\ Len(san_in) <= 200)
        => san_out = san_in

\* A long input with reserved characters, sanitised twice.
C5_Witness ==
    /\ san_pc = "twice"
    /\ HasListedReserved(san_in)
    /\ Len(san_in) > 200
    /\ san_out # san_in
    /\ san_twice = san_out

\* The name C6 expects for an event without the marker when the context is
\* empty: unknown_source and the file's extension.
C6_Expected ==
    IF ev_path = "photo.jpg" THEN "unknown_source.jpg"
    ELSE IF ev_path = "report.pdf" THEN "unknown_source.pdf"
    ELSE "(no such event)"

\* C6: when the context query returns the empty string the name is the
\* fallback token unknown_source, and the file of an event without the marker
\* (photo.jpg) is moved to the destination directory as unknown_source plus
\* its extension (unknown_source.jpg), provided the file is still there at the
\* move and the move is not refused.
C6_FallbackName ==
    [][(/\ pc = "move"
        /\ pc' = "done"
        /\ ev_path \in {"photo.jpg", "report.pdf"}
        /\ safari_url = ""
        /\ Exists(ev_path)
        /\ err' # "PermissionError")
          => /\ path = ev_path
             /\ new_path = C6_Expected
             /\ outcome' = "relocated"
             /\ dest'[C6_Expected] = fs[ev_path]
             /\ fs'[ev_path] = NoFile]_vars

C6_Witness ==
    /\ pc = "done"
    /\ ev_path = "photo.jpg"
    /\ safari_url = ""
    /\ outcome = "relocated"
    /\ ExistsIn(dest, "unknown_source.jpg")
    /\ ~Exists("photo.jpg")

\* The name ends in the in-progress marker, ".download".
Marked(n) == Len(n) >= 9 /\ SubSeq(n, Len(n) - 8, Len(n)) = ".download"

\* The name without its last nine characters.
Unmarked(n) == SubSeq(n, 1, Len(n) - 9)

\* C7: for a path without the marker suffix the resolver returns that same
\* path at once: process_event never is in the resolver's loop, and no poll
\* and no sleep of the resolver is made.
C7_NoMarkerNoWait ==
    (ev_path # "" /\ ~Marked(ev_path))
        => /\ ~Waiting
           /\ PastResolver => path = ev_path
           /\ polls = 0
           /\ sleeps = 0
           /\ elapsed = 0
           /\ ~warned

C7_Witness ==
    /\ pc = "delay"
    /\ ev_path = "photo.jpg"
    /\ path = "photo.jpg"
    /\ polls = 0

\* C8 as stated: for a path with the marker, once the final file has appeared
\* within the timeout the resolver returns the final path, whatever the marker
\* file does.
C8_Original ==
    (PastResolver /\ Marked(ev_path) /\ final_created)
        => path = Unmarked(ev_path)

\* C8, amended: for a path with the marker, a poll within the timeout that
\* finds the marker file gone and then the final file present returns the final
\* path at once, without a warning; a poll that finds the final file missing
\* goes on to sleep. The resolver returns either the final path or, after its
\* warning, the marker path.
C8_FinalWhenMarkerGone ==
    /\ [][(pc = "poll_final" /\ pc' # "poll_final")
            => IF Exists(Unmarked(ev_path))
               THEN pc' = "delay" /\ path' = Unmarked(ev_path) /\ ~warned'
               ELSE pc' = "sleep" /\ path' = ev_path]_vars
    /\ []((PastResolver /\ Marked(ev_path))
            => \/ path = Unmarked(ev_path) /\ ~warned
               \/ path = ev_path /\ warned)

\* The resolver waited and then returned the final path.
C8_Witness ==
    /\ pc = "delay"
    /\ Marked(ev_path)
    /\ elapsed > 0
    /\ path = Unmarked(ev_path)

\* C9: every call of the resolver ends. It makes at most 60 polls, one second
\* apart; when the final file never appeared it returns the marker path after
\* the 60 seconds, with its warning, whether the marker file is still there or
\* not.
C9_Terminates ==
    /\ [](Waiting => (elapsed <= 60 /\ polls <= 60 /\ sleeps = elapsed))
    /\ []((PastResolver /\ Marked(ev_path) /\ ~final_appeared)
            => (warned /\ path = ev_path))
    /\ []((pc = "delay" /\ warned) => (elapsed = 60 /\ polls = 60))
    /\ (pc = "resolve") ~> (pc = "delay")

\* The marker file went away, no final file came, and the resolver timed out.
C9_Witness ==
    /\ pc = "delay"
    /\ Marked(ev_path)
    /\ ~final_appeared
    /\ ~Exists(ev_path)
    /\ warned
    /\ path = ev_path

\* C10: a move whose target name exists in the destination directory, and
\* that the operating system does not refuse, replaces the target: afterwards
\* the name holds the content of the moved file, the other names hold what
\* they held, and the source is gone. Refused or not, process_event ends with
\* the error, if any, caught.
C10_Overwrites ==
    [][(/\ pc = "move"
        /\ pc' # "move"
        /\ Exists(path)
        /\ ExistsIn(dest, new_path))
          => /\ pc' = "done"
             /\ err' # "PermissionError"
                  => /\ outcome' = "relocated"
                     /\ err' = ""
                     /\ dest' = [dest EXCEPT ![new_path] = fs[path]]
                     /\ ~ExistsIn(fs', path)]_vars

\* A move has replaced a file of another content.
C10_Witness ==
    /\ pc = "done"
    /\ outcome = "relocated"
    /\ replaced # NoFile
    /\ dest[new_path] # replaced

C12_QueryNeverRaises ==
    [][(pc = "query" /\ pc' # "query")
         => /\ pc' = "move"
            /\ safari_url' = ""
                 => new_path' = "unknown_source" \o Suffix(path)]_vars

\* C13: an event whose path does not exist when process_event starts is
\* skipped: no context query is made, no file is moved, ~/Downloads and the
\* destination directory stay as they are, and the observer thread is ready
\* for the next event.
C13_MissingSkipped ==
    [][\A n \in Names :
         (Dispatch(n, FALSE) /\ ~Exists(n))
           => /\ pc' = "idle"
              /\ dropped' = "missing"
              /\ UNCHANGED <<fs, dest, ev_path, path, resolver_vars,
                             move_vars>>]_vars

\* An event came for a path that the environment had removed, and was skipped
\* with nothing moved.
C13_Witness ==
    /\ dropped = "missing"
    /\ pc = "idle"
    /\ handled = 1
    /\ env_steps = 1
    /\ \A n \in Names : ~Exists(n)
    /\ \A n \in DOMAIN dest : dest[n] = NoFile

\* The steps of process_event in the order of the state machine: Detected
\* ("resolve"), Stabilizing ("loop", "poll_final", "sleep"), Ready ("delay"),
\* the context query ("query"), the move attempt ("move"), Relocated or Failed
\* ("done").
C14_Order ==
    {<<"idle", "resolve">>, <<"resolve", "loop">>, <<"resolve", "delay">>,
     <<"loop", "poll_final">>, <<"loop", "sleep">>, <<"loop", "delay">>,
     <<"poll_final", "sleep">>, <<"poll_final", "delay">>,
     <<"sleep", "loop">>, <<"delay", "query">>, <<"query", "move">>,
     <<"move", "done">>, <<"done", "idle">>}

\* C14: every handled event goes through the states in order: the resolver's
\* loop only for a path with the marker, one context query after the delay,
\* then one move attempt that ends relocated or failed.
C14_StatesInOrder ==
    /\ [][pc' # pc => <<pc, pc'>> \in C14_Order]_vars
    /\ [][(pc = "resolve" /\ pc' = "loop") => Marked(path)]_vars
    /\ [][(pc = "move" /\ pc' = "done")
            => /\ outcome' \in {"relocated", "failed"}
               /\ moves' = (IF outcome' = "relocated" THEN 1 ELSE 0)]_vars

\* C17 as stated: no file with the marker suffix is in the destination
\* directory.
C17_Original ==
    \A n \in DOMAIN dest : Marked(n) => dest[n] = NoFile

\* C17: a file is moved under a name with the marker suffix only when the
\* resolver has timed out, warned and returned the marker path; a path the
\* resolver returned without a time-out carries no marker, and neither does
\* the name its file is moved to.
C17_MarkerOnlyAfterTimeout ==
    /\ [][(pc = "move" /\ pc' = "done" /\ outcome' = "relocated")
            => /\ Marked(new_path) <=> Marked(path)
               /\ Marked(path) => (warned /\ path = ev_path)
               /\ dest'[new_path] = fs[path]]_vars
    /\ []((PastResolver /\ ~warned) => ~Marked(path))

\* The resolver timed out with the download still in progress, and the marker
\* file was moved into the destination directory.
C17_Witness ==
    /\ pc = "done"
    /\ outcome = "relocated"
    /\ warned
    /\ Marked(new_path)
    /\ dest[new_path] # NoFile

\* C15: in both watchers the main thread calls observer.stop() before
\* observer.join(), every way out of the main loop goes through the except
\* clause to the join, and the program ends only after the join: once
\* interrupted, the program stops the observer, joins it and ends.
C15_StopThenJoin ==
    /\ [](\A i \in DOMAIN calls :
            calls[i] = "join" => \E j \in 1..(i - 1) : calls[j] = "stop")
    /\ [][(main_pc = "loop" /\ main_pc' # "loop") => main_pc' = "except"]_vars
    /\ [](main_pc = "exit"
            => (calls = <<"start", "stop", "join">> /\ observer = "ended"))
    /\ (main_pc = "except") ~> (main_pc = "exit")

\* The screenshot watcher was interrupted while its handler ran, and has
\* stopped and joined the observer.
C15_Witness ==
    /\ prog = "screenshot.py"
    /\ main_pc = "exit"
    /\ obs_events > 0
    /\ calls = <<"start", "stop", "join">>

\* The text is blank: empty, or white space only.
C16_Blank(t) == \A i \in 1..Len(t) : CharAt(t, i) \in {" ", "\t", "\n", "\r"}

\* The text from its first to its last character that is not white space.
C16_Trimmed(t) ==
    LET ink == {i \in 1..Len(t) : CharAt(t, i) \notin {" ", "\t", "\n", "\r"}}
        first == CHOOSE i \in ink : \A j \in ink : i <= j
        last == CHOOSE i \in ink : \A j \in ink : j <= i
    IN  IF ink = {} THEN "" ELSE SubSeq(t, first, last)

\* The text with every run of characters that are no letters and no digits
\* replaced by one underscore.
RECURSIVE C16_Underscored(_)
C16_Underscored(t) ==
    IF t = "" THEN ""
    ELSE LET c == CharAt(t, 1)
             rest == SubSeq(t, 2, Len(t))
         IN  IF c \in Alnum THEN c \o C16_Underscored(rest)
             ELSE IF rest # "" /\ CharAt(rest, 1) \notin Alnum
                  THEN C16_Underscored(rest)
                  ELSE "_" \o C16_Underscored(rest)

\* The entries that count: text not blank, height positive.
C16_Candidates ==
    {i \in DOMAIN ocr_data :
        ~C16_Blank(ocr_data[i].text) /\ ocr_data[i].height > 0}

\* The first entry of the greatest height among those that count.
C16_Chosen ==
    CHOOSE i \in C16_Candidates :
        /\ \A j \in C16_Candidates : ocr_data[j].height <= ocr_data[i].height
        /\ \A j \in C16_Candidates :
              ocr_data[j].height = ocr_data[i].height => i <= j

\* C16 as stated: the result is the chosen entry's text with the runs
\* replaced, and None when no entry counts or OCR raises.
C16_Original ==
    ocr_pc = "done"
      => ocr_result =
           (IF ocr_raises \/ C16_Candidates = {} THEN None
            ELSE Some(C16_Underscored(ocr_data[C16_Chosen].text)))

\* C16: the result is the text of the first entry of the greatest height among
\* the entries with non-blank text, without the white space around it and with
\* every run of other characters than letters and digits replaced by one
\* underscore; it is None when no entry has non-blank text and a positive
\* height, and when OCR raises.
C16_LargestText ==
    ocr_pc = "done"
      => ocr_result =
           (IF ocr_raises \/ C16_Candidates = {} THEN None
            ELSE Some(C16_Underscored(C16_Trimmed(ocr_data[C16_Chosen].text))))

\* Two entries of the same greatest height, the first of them with blanks
\* around its text: the first one's text is returned, trimmed.
C16_Witness ==
    /\ ocr_pc = "done"
    /\ ~ocr_raises
    /\ Len(ocr_data) = 2
    /\ ocr_data[1] = [text |-> " Hi ", height |-> 2]
    /\ ocr_data[2] = [text |-> "a, b!", height |-> 2]
    /\ ocr_result = Some("Hi")

\* The name is a screenshot's: it starts with "screenshot", in any case, and
\* ends in .png, .jpg or .jpeg.
C18_ScreenshotName(n) ==
    /\ Len(n) >= 10
    /\ Lower(SubSeq(n, 1, 10)) = "screenshot"
    /\ \/ Lower(SubSeq(n, Len(n) - 3, Len(n))) \in {".png", ".jpg"}
       \/ Lower(SubSeq(n, Len(n) - 4, Len(n))) = ".jpeg"

\* C18: for a created file whose name is not a screenshot's the handler makes
\* no rename: the file stays under its name, and nothing else on the Desktop
\* changes by the handler's doing.
C18_OthersUntouched ==
    (shot_path # "" /\ ~C18_ScreenshotName(shot_path)) => shot_renames = 0

\* C19: every request is sent the speech made from its own upload, and while a
\* request's response is still to be sent its stored recording and its
\* response file hold what that request wrote.
C19_OwnAnswer ==
    \A r \in Requests :
        /\ req_pc[r] = "sending"
             => /\ uploads["response_" \o req_ts[r] \o ".mp3"] = r
                /\ uploads[req_name[r]] = r
        /\ req_pc[r] = "done" => delivered[r] = r

====
